---- MODULE Spec2Model ----
(***************************************************************************)
(* Model of app.py (ResQnova earthquake dashboard).                        *)
(*                                                                         *)
(* Two threads share the module-level globals heatmap_data (a list) and    *)
(* population_data (an insertion-ordered dict):                            *)
(*   - the daemon thread running update_heatmap(), which fetches the USGS  *)
(*     feed, and in process_usgs_data() clears both globals and refills    *)
(*     them event by event, in place;                                      *)
(*   - a Flask request thread running home() -> create_heatmap(), which    *)
(*     only reads them.                                                    *)
(* No lock is taken anywhere, so every statement boundary of one thread is *)
(* a point where the other thread may run.                                 *)
(*                                                                         *)
(* Floats are modelled by integers: magnitudes and densities are integer   *)
(* valued, np.pi is the rational PiNum/PiDen, and a product is kept as an  *)
(* exact fraction until int() truncates it.  None and NaN are kept as      *)
(* separate tagged values.                                                 *)
(***************************************************************************)
EXTENDS Integers, Sequences, FiniteSets, TLC

VARIABLES
    heatmap_data,     \* global list of (lat, lon, magnitude)            (line 13)
    population_data,  \* global dict (lat, lon) -> estimate, insertion order (line 14)
    pc,               \* position of the update_heatmap thread
    usgs_data,        \* local of update_heatmap: last fetch result      (line 139)
    idx,              \* number of events of usgs_data fully processed   (line 89)
    densities,        \* values returned by get_population_density in this cycle (line 69)
    affected_people,  \* local of process_usgs_data                      (line 93)
    usgs_response,    \* `response` of fetch_usgs_earthquake_data, until the loop moves on (line 34)
    refreshed,        \* history: some cycle has run process_usgs_data to its end
    prev,             \* history: what the cycle before left, kept while a cycle is
                      \* run again on the same list and the same lookup results
    rpc,              \* position of the request thread in home/create_heatmap
    r_size,           \* dict size remembered by the items() iterator    (line 108)
    r_pos,            \* entries the items() iterator has yielded        (line 108)
    r_alert           \* most_extreme chosen for the alert, or NoAlert   (line 117)

vars == <<heatmap_data, population_data, pc, usgs_data, idx, densities,
          affected_people, usgs_response, refreshed, prev, rpc, r_size, r_pos, r_alert>>

updaterVars == <<heatmap_data, population_data, pc, usgs_data, idx, densities,
                 affected_people, usgs_response, refreshed, prev>>
renderVars == <<rpc, r_size, r_pos, r_alert>>

----------------------------------------------------------------------------
(* Bounds of the model. *)

MaxEvents == 2      \* longest feed response explored
MaxMagnitude == 6   \* largest magnitude given to the estimator alone
MaxDensity == 5     \* largest pixel value given to the estimator alone

----------------------------------------------------------------------------
(* Values.  A Python float, None or NaN is a record with a tag k. *)

Num(n) == [k |-> "num", v |-> n]
None == [k |-> "None", v |-> 0]
NaN == [k |-> "nan", v |-> 0]
IsNum(x) == x.k = "num"

Unknown == [k |-> "Unknown", v |-> 0]
IsUnknown(x) == x.k = "Unknown"

\* np.pi as a rational
PiNum == 355
PiDen == 113
\* "10 km per magnitude unit"
KmPerMagnitude == 10

Lats == {10, 20}
Lons == {70}
\* magnitudes the feed delivers in the refresh loop: null, negative, positive
Magnitudes == {None, Num(-1), Num(5)}
\* what one raster lookup can give: an exception (-> None), a negative no-data
\* pixel, a positive pixel, a NaN pixel
DensityOutcomes == {None, Num(-1), Num(2), NaN}

\* magnitudes and lookup results for the estimator taken alone
WideMagnitudes == {None, NaN} \cup {Num(m) : m \in -2..MaxMagnitude}
WideDensityOutcomes == {None, NaN} \cup {Num(d) : d \in -2..MaxDensity}

Event(lat, lon, mag) == [lat |-> lat, lon |-> lon, magnitude |-> mag]
Events == {Event(la, lo, m) : la \in Lats, lo \in Lons, m \in Magnitudes}
Key(e) == <<e.lat, e.lon>>

SeqsUpTo(S, n) == UNION {[1..k -> S] : k \in 0..n}

----------------------------------------------------------------------------
(* fetch_usgs_earthquake_data, lines 33-48. *)

\* a feature of the GeoJSON response: either it has geometry.coordinates and
\* properties.mag (mag may be null), or a key is missing
Malformed == [wellformed |-> FALSE, lat |-> 0, lon |-> 0, magnitude |-> None]
Feature(e) == [wellformed |-> TRUE, lat |-> e.lat, lon |-> e.lon, magnitude |-> e.magnitude]
Features == {Feature(e) : e \in Events} \cup {Malformed}

Responses ==
    {[kind |-> "exception", status |-> 0, features |-> <<>>],
     [kind |-> "http", status |-> 503, features |-> <<>>]}
    \cup {[kind |-> "http", status |-> 200, features |-> fs] : fs \in SeqsUpTo(Features, MaxEvents)}

\* no request made, or its response dropped with the frame of the function
NoResponse == [kind |-> "none", status |-> 0, features |-> <<>>]

\* the value of usgs_data: None, or a list of tuples
NoData == [ok |-> FALSE, events |-> <<>>]
DataList(es) == [ok |-> TRUE, events |-> es]

fetch_usgs_earthquake_data(response) ==
    IF response.kind = "exception" THEN NoData                  \* requests.get raised
    ELSE IF response.status # 200 THEN NoData                   \* else branch, line 45
    ELSE IF \E i \in 1..Len(response.features) : ~response.features[i].wellformed
         THEN NoData                                            \* KeyError caught, line 46
    ELSE DataList([i \in 1..Len(response.features) |->
                     Event(response.features[i].lat, response.features[i].lon,
                           response.features[i].magnitude)])

\* Python truth value of usgs_data: None and [] are false
Truthy(data) == data.ok /\ Len(data.events) > 0

----------------------------------------------------------------------------
(* estimate_affected_people, lines 65-79. *)

\* int(x) of the fraction num/den, den > 0: truncation toward zero
IntTrunc(num, den) ==
    IF num >= 0 THEN num \div den ELSE -((-num) \div den)

Raised == [k |-> "raised", v |-> 0]
IsRaised(x) == x.k = "raised"

\* the radius with the factor of line 74 left out
impact_radius_unscaled(magnitude) == magnitude

impact_radius_km(magnitude) == magnitude * KmPerMagnitude

\* the estimator without the check of lines 70-71: None reaches the product of
\* line 78, a TypeError
estimate_without_none_check(population_density, magnitude) ==
    IF population_density = None \/ magnitude = None THEN Raised
    ELSE IF magnitude = NaN \/ population_density = NaN THEN Raised
    ELSE Num(IntTrunc(population_density.v * PiNum
                        * (magnitude.v * KmPerMagnitude) * (magnitude.v * KmPerMagnitude),
                      PiDen))

estimate_affected_people(population_density, magnitude) ==
    IF population_density = None THEN Unknown                       \* line 70-71
    ELSE IF magnitude = None THEN Raised                            \* None * 10: TypeError
    ELSE IF magnitude = NaN \/ population_density = NaN THEN Raised \* int(nan): ValueError
    ELSE Num(IntTrunc(population_density.v * PiNum
                        * impact_radius_km(magnitude.v) * impact_radius_km(magnitude.v),
                      PiDen))

----------------------------------------------------------------------------
(* The dict population_data: a sequence of entries in insertion order. *)

Entry(key, val) == [key |-> key, val |-> val]
DictKeys(d) == {d[i].key : i \in 1..Len(d)}
DictGet(d, key) == (CHOOSE i \in 1..Len(d) : d[i].key = key)
DictLookup(d, key) == d[DictGet(d, key)].val

\* a dict whose assignment keeps the value a key already has (setdefault)
DictSetKeepFirst(d, key, val) ==
    IF key \in DictKeys(d) THEN d ELSE Append(d, Entry(key, val))

\* d[key] = val
DictSet(d, key, val) ==
    IF key \in DictKeys(d)
    THEN [d EXCEPT ![DictGet(d, key)] = Entry(key, val)]
    ELSE Append(d, Entry(key, val))

----------------------------------------------------------------------------
(* The request thread starts idle. *)

NoAlert == [lat |-> 0, lon |-> 0, magnitude |-> None]

RenderInit ==
    /\ rpc = "idle"
    /\ r_size = 0
    /\ r_pos = 0
    /\ r_alert = NoAlert

\* nothing remembered of the cycle before
NoPrev == [set |-> FALSE, heatmap_data |-> <<>>, population_data |-> <<>>,
           densities |-> <<>>]

Init ==
    /\ heatmap_data = <<>>
    /\ population_data = <<>>
    /\ pc = "fetch"
    /\ usgs_data = NoData
    /\ idx = 0
    /\ densities = <<>>
    /\ affected_people = Unknown
    /\ usgs_response = NoResponse
    /\ refreshed = FALSE
    /\ prev = NoPrev
    /\ RenderInit

----------------------------------------------------------------------------
(* update_heatmap, lines 130-148, with process_usgs_data, lines 81-96. *)

\* the loop with the tests of lines 142 and 86 left out: the clears run for
\* whatever the fetch gave
AfterFetchUnguarded(data) == "clear_heatmap"

\* where the loop goes after line 139: lines 142-145 and 86
AfterFetch(data) == IF Truthy(data) THEN "clear_heatmap" ELSE "sleep"

\* line 139, 142: usgs_data = fetch_usgs_earthquake_data(); if usgs_data: ...
\* With remember, a fetch that gives the list of the completed cycle before
\* keeps what that cycle left, for comparison.
FetchWith(remember) ==
    /\ pc = "fetch"
    /\ usgs_response' \in Responses
    /\ usgs_data' = fetch_usgs_earthquake_data(usgs_response')
    /\ pc' = AfterFetch(usgs_data')
    /\ idx' = 0
    /\ densities' = <<>>
    /\ prev' = IF remember /\ Truthy(usgs_data) /\ idx = Len(usgs_data.events)
                  /\ usgs_data' = usgs_data
               THEN [set |-> TRUE, heatmap_data |-> heatmap_data,
                     population_data |-> population_data, densities |-> densities]
               ELSE NoPrev
    /\ UNCHANGED <<heatmap_data, population_data, affected_people, refreshed>>
    /\ UNCHANGED renderVars

Fetch == FetchWith(FALSE)

\* process_usgs_data without line 87: the list is never emptied
ClearHeatmapSkipped ==
    /\ pc = "clear_heatmap"
    /\ pc' = "clear_population"
    /\ usgs_response' = NoResponse
    /\ UNCHANGED <<heatmap_data, population_data, usgs_data, idx, densities,
                   affected_people, refreshed, prev>>
    /\ UNCHANGED renderVars

\* line 87: heatmap_data.clear()
ClearHeatmap ==
    /\ pc = "clear_heatmap"
    /\ heatmap_data' = <<>>
    /\ pc' = "clear_population"
    /\ usgs_response' = NoResponse
    /\ UNCHANGED <<population_data, usgs_data, idx, densities, affected_people,
                   refreshed, prev>>
    /\ UNCHANGED renderVars

\* where the for loop of line 89 goes with n events done
LoopNext(data, n) == IF n < Len(data.events) THEN "append" ELSE "sleep"

\* line 88: population_data.clear()
ClearPopulation ==
    /\ pc = "clear_population"
    /\ population_data' = <<>>
    /\ pc' = LoopNext(usgs_data, idx)
    /\ refreshed' = (refreshed \/ pc' = "sleep")
    /\ UNCHANGED <<heatmap_data, usgs_data, idx, densities, affected_people,
                   usgs_response, prev>>
    /\ UNCHANGED renderVars

\* heatmap_data.insert(0, (lat, lon, magnitude)): the newest event first
AppendEventAtFront ==
    /\ pc = "append"
    /\ heatmap_data' = <<usgs_data.events[idx + 1]>> \o heatmap_data
    /\ pc' = "estimate"
    /\ UNCHANGED <<population_data, usgs_data, idx, densities, affected_people,
                   usgs_response, refreshed, prev>>
    /\ UNCHANGED renderVars

\* line 90: heatmap_data.append((lat, lon, magnitude))
AppendEvent ==
    /\ pc = "append"
    /\ heatmap_data' = Append(heatmap_data, usgs_data.events[idx + 1])
    /\ pc' = "estimate"
    /\ UNCHANGED <<population_data, usgs_data, idx, densities, affected_people,
                   usgs_response, refreshed, prev>>
    /\ UNCHANGED renderVars

\* line 93: affected_people = estimate_affected_people(lat, lon, magnitude);
\* an exception leaving it is caught nowhere and ends the thread
EstimateFrom(outcomes) ==
    /\ pc = "estimate"
    /\ \E population_density \in outcomes :
          LET r == estimate_affected_people(population_density,
                                            usgs_data.events[idx + 1].magnitude)
          IN /\ densities' = Append(densities, population_density)
             /\ IF IsRaised(r)
                THEN pc' = "dead" /\ UNCHANGED affected_people
                ELSE pc' = "store" /\ affected_people' = r
    /\ UNCHANGED <<heatmap_data, population_data, usgs_data, idx, usgs_response,
                   refreshed, prev>>
    /\ UNCHANGED renderVars

Estimate == EstimateFrom(DensityOutcomes)

\* line 94: population_data[(lat, lon)] = affected_people
Store ==
    /\ pc = "store"
    /\ population_data' = DictSet(population_data, Key(usgs_data.events[idx + 1]),
                                  affected_people)
    /\ idx' = idx + 1
    /\ pc' = LoopNext(usgs_data, idx')
    /\ refreshed' = (refreshed \/ pc' = "sleep")
    /\ UNCHANGED <<heatmap_data, usgs_data, densities, affected_people,
                   usgs_response, prev>>
    /\ UNCHANGED renderVars

\* line 148 returns: the next pass of while True
Sleep ==
    /\ pc = "sleep"
    /\ pc' = "fetch"
    /\ usgs_response' = NoResponse
    /\ UNCHANGED <<heatmap_data, population_data, usgs_data, idx, densities,
                   affected_people, refreshed, prev>>
    /\ UNCHANGED renderVars

----------------------------------------------------------------------------
(* home, lines 150-157, with create_heatmap, lines 98-128. *)

\* max() with >= in place of >: the last of the equal maxima
MostExtremeLast(h) ==
    h[CHOOSE i \in 1..Len(h) :
        /\ \A j \in 1..Len(h) : h[j].magnitude.v <= h[i].magnitude.v
        /\ \A j \in (i + 1)..Len(h) : h[j].magnitude.v < h[i].magnitude.v]

\* max(heatmap_data, key=lambda x: x[2]): the first element no later one exceeds
MostExtreme(h) ==
    h[CHOOSE i \in 1..Len(h) :
        /\ \A j \in 1..Len(h) : h[j].magnitude.v <= h[i].magnitude.v
        /\ \A j \in 1..(i - 1) : h[j].magnitude.v < h[i].magnitude.v]

\* lines 117-123 raise: max() of an empty list is a ValueError; a None magnitude
\* is a TypeError, in the comparison or in the format {intensity:.2f}
AlertRaises(h) ==
    \/ Len(h) = 0
    \/ \E i \in 1..Len(h) : ~IsNum(h[i].magnitude)

\* a request arrives: home() calls create_heatmap, line 156
RenderStart ==
    /\ rpc = "idle"
    /\ rpc' = "heatmap"
    /\ UNCHANGED <<r_size, r_pos, r_alert>>
    /\ UNCHANGED updaterVars

\* line 105: HeatMap(heatmap_data) reads the list
RenderHeatMap ==
    /\ rpc = "heatmap"
    /\ rpc' = "items"
    /\ UNCHANGED <<r_size, r_pos, r_alert>>
    /\ UNCHANGED updaterVars

\* line 108: population_data.items() gives an iterator that remembers the size
RenderItems ==
    /\ rpc = "items"
    /\ r_size' = Len(population_data)
    /\ r_pos' = 0
    /\ rpc' = "marker"
    /\ UNCHANGED r_alert
    /\ UNCHANGED updaterVars

\* lines 108-113: one step of the for loop. The iterator first compares the
\* dict's size with the one it remembers (RuntimeError: dictionary changed size
\* during iteration), then yields the next entry or stops
RenderMarker ==
    /\ rpc = "marker"
    /\ IF Len(population_data) # r_size
       THEN rpc' = "raised" /\ UNCHANGED r_pos
       ELSE IF r_pos < Len(population_data)
            THEN rpc' = "marker" /\ r_pos' = r_pos + 1
            ELSE rpc' = "test" /\ UNCHANGED r_pos
    /\ UNCHANGED <<r_size, r_alert>>
    /\ UNCHANGED updaterVars

\* line 116: if heatmap_data:
RenderTest ==
    /\ rpc = "test"
    /\ rpc' = IF Len(heatmap_data) > 0 THEN "max" ELSE "done"
    /\ UNCHANGED <<r_size, r_pos, r_alert>>
    /\ UNCHANGED updaterVars

\* the list sorted in place to find the alert: heatmap_data.sort(...) and then
\* heatmap_data[0], which moves the most extreme event to the front
RenderAlertInPlace ==
    /\ rpc = "max"
    /\ IF AlertRaises(heatmap_data)
       THEN rpc' = "raised" /\ UNCHANGED <<r_alert, heatmap_data>>
       ELSE /\ rpc' = "done"
            /\ r_alert' = MostExtreme(heatmap_data)
            /\ heatmap_data' = <<MostExtreme(heatmap_data)>>
                                  \o SelectSeq(heatmap_data,
                                               LAMBDA e : e # MostExtreme(heatmap_data))
    /\ UNCHANGED <<r_size, r_pos>>
    /\ UNCHANGED <<population_data, pc, usgs_data, idx, densities, affected_people,
                   usgs_response, refreshed, prev>>

\* lines 117-126: most_extreme = max(...), the alert is formatted and added
RenderAlert ==
    /\ rpc = "max"
    /\ IF AlertRaises(heatmap_data)
       THEN rpc' = "raised" /\ UNCHANGED r_alert
       ELSE rpc' = "done" /\ r_alert' = MostExtreme(heatmap_data)
    /\ UNCHANGED <<r_size, r_pos>>
    /\ UNCHANGED updaterVars

\* line 128, 157: the map is returned and rendered, or the exception ends the
\* request; the thread is free for the next request
RenderReturn ==
    /\ rpc \in {"done", "raised"}
    /\ rpc' = "idle"
    /\ r_size' = 0
    /\ r_pos' = 0
    /\ r_alert' = NoAlert
    /\ UNCHANGED updaterVars

----------------------------------------------------------------------------
(* Specifications. *)

\* both threads
Next ==
    \/ Fetch
    \/ ClearHeatmap
    \/ ClearPopulation
    \/ AppendEvent
    \/ Estimate
    \/ Store
    \/ Sleep
    \/ RenderStart
    \/ RenderHeatMap
    \/ RenderItems
    \/ RenderMarker
    \/ RenderTest
    \/ RenderAlert
    \/ RenderReturn

Spec == Init /\ [][Next]_vars

\* the refresh thread with no request in progress
NextUpdate ==
    \/ Fetch
    \/ ClearHeatmap
    \/ ClearPopulation
    \/ AppendEvent
    \/ Estimate
    \/ Store
    \/ Sleep

SpecUpdate == Init /\ [][NextUpdate]_vars

\* both threads, with a feed that answers 200 with well-formed events of known
\* magnitude, or fails; every lookup finds a pixel
FetchServed ==
    /\ Fetch
    /\ \A i \in 1..Len(usgs_response'.features) :
          /\ usgs_response'.features[i].wellformed
          /\ IsNum(usgs_response'.features[i].magnitude)
    /\ usgs_response'.status # 503

EstimateServed == EstimateFrom({Num(2)})

NextServe ==
    \/ FetchServed
    \/ ClearHeatmap
    \/ ClearPopulation
    \/ AppendEvent
    \/ EstimateServed
    \/ Store
    \/ Sleep
    \/ RenderStart
    \/ RenderHeatMap
    \/ RenderItems
    \/ RenderMarker
    \/ RenderTest
    \/ RenderAlert
    \/ RenderReturn

SpecServe == Init /\ [][NextServe]_vars

\* estimate_affected_people taken alone: the loop stands at line 93 with one
\* event of any magnitude, and the lookup gives any result
InitEstimate ==
    /\ \E la \in Lats, lo \in Lons, m \in WideMagnitudes :
          /\ usgs_data = DataList(<<Event(la, lo, m)>>)
          /\ heatmap_data = <<Event(la, lo, m)>>
    /\ population_data = <<>>
    /\ pc = "estimate"
    /\ idx = 0
    /\ densities = <<>>
    /\ affected_people = Unknown
    /\ usgs_response = NoResponse
    /\ refreshed = FALSE
    /\ prev = NoPrev
    /\ RenderInit

EstimateWide == EstimateFrom(WideDensityOutcomes)

NextEstimate ==
    \/ EstimateWide
    \/ Store

SpecEstimate == InitEstimate /\ [][NextEstimate]_vars

\* the refresh thread, where a cycle may be followed by a cycle on the same
\* fetched list with the same lookup results
FetchAgain == FetchWith(TRUE) /\ prev'.set

EstimateFirst == ~prev.set /\ Estimate

EstimateAgain == prev.set /\ EstimateFrom({prev.densities[idx + 1]})

NextRepeat ==
    \/ Fetch
    \/ FetchAgain
    \/ ClearHeatmap
    \/ ClearPopulation
    \/ AppendEvent
    \/ EstimateFirst
    \/ EstimateAgain
    \/ Store
    \/ Sleep

SpecRepeat == Init /\ [][NextRepeat]_vars

----------------------------------------------------------------------------
(* Helpers of the properties. *)

\* the refresh loop is in its wait (line 148)
Waiting == pc = "sleep"

\* ... after a cycle whose fetch gave a non-empty list that was processed to the end
CycleCompleted == Waiting /\ Truthy(usgs_data) /\ idx = Len(usgs_data.events)

\* the request thread is between line 156 and the return of create_heatmap
Rendering == rpc \in {"heatmap", "items", "marker", "test", "max"}

\* h and p are what one whole cycle leaves: one estimate per event, in event order
OneEstimatePerEvent(h, p) ==
    /\ Len(p) = Len(h)
    /\ \A i \in 1..Len(h) : p[i].key = Key(h[i])

Stored(p) == {p[i].val : i \in 1..Len(p)}

----------------------------------------------------------------------------
(* Properties. *)

\* C1: whatever a request in progress can read, heatmap_data and population_data
\* are the whole result of one cycle (as many estimates as events, event by
\* event), or both empty; never a cycle half written.
C1_AtomicSnapshot ==
    Rendering => OneEstimatePerEvent(heatmap_data, population_data)

\* C2: a cycle whose fetch fails (usgs_data is None) goes straight to the wait
\* and leaves heatmap_data and population_data exactly as the cycle before left
\* them.
C2_FailedFetchKeepsData ==
    [][(pc = "fetch" /\ pc' # "fetch" /\ ~usgs_data'.ok)
        => (pc' = "sleep" /\ heatmap_data' = heatmap_data
                          /\ population_data' = population_data)]_vars

\* a failed fetch after a cycle that published events
C2_Witness ==
    /\ Waiting
    /\ ~usgs_data.ok
    /\ Len(heatmap_data) > 0
    /\ Len(population_data) > 0

\* C3: a render request never raises: it always runs to the returned map.
C3_RenderNeverRaises == rpc # "raised"

\* C4: no error inside a cycle ends update_heatmap: the thread is never dead.
C4_LoopNeverDies == pc # "dead"

\* event j is the last of the first n events of es with its coordinates
LastWithKey(es, n, j) == \A i \in (j + 1)..n : Key(es[i]) # Key(es[j])

\* C5: a raster lookup that fails for one event gives that event the estimate
\* "Unknown" and never ends the cycle: the event is in heatmap_data, the loop
\* goes on, and what population_data holds for each processed event (the last
\* one at its coordinates) is decided by that event's own lookup and magnitude.
C5_PerEventIsolation ==
    /\ \A j \in 1..Len(densities) :
          densities[j] = None =>
             /\ ~(pc = "dead" /\ j = idx + 1)
             /\ j <= Len(heatmap_data)
             /\ heatmap_data[j] = usgs_data.events[j]
             /\ j = idx + 1 => (pc = "store" /\ affected_people = Unknown)
    /\ \A j \in 1..idx :
          LastWithKey(usgs_data.events, idx, j) =>
             /\ Key(usgs_data.events[j]) \in DictKeys(population_data)
             /\ DictLookup(population_data, Key(usgs_data.events[j]))
                  = IF densities[j] = None
                    THEN Unknown
                    ELSE estimate_affected_people(densities[j],
                                                  usgs_data.events[j].magnitude)
             /\ densities[j] # None =>
                  IsNum(DictLookup(population_data, Key(usgs_data.events[j])))

\* a finished cycle of two events at different places: the first lookup failed,
\* the second did not
C5_Witness ==
    /\ CycleCompleted
    /\ Len(usgs_data.events) = 2
    /\ Key(usgs_data.events[1]) # Key(usgs_data.events[2])
    /\ densities = <<None, Num(2)>>
    /\ DictLookup(population_data, Key(usgs_data.events[1])) = Unknown
    /\ IsNum(DictLookup(population_data, Key(usgs_data.events[2])))

\* C6: after a cycle whose fetch succeeded with zero events, heatmap_data and
\* population_data are both empty, whatever the cycle before published.
C6_EmptyFetchEmptiesData ==
    (Waiting /\ usgs_data.ok /\ Len(usgs_data.events) = 0)
        => (heatmap_data = <<>> /\ population_data = <<>>)

\* C7: after every completed cycle population_data has as many entries as the
\* fetched sequence has events, which is also the length of heatmap_data.
C7_EstimateCountIsEventCount ==
    CycleCompleted =>
        /\ Len(heatmap_data) = Len(usgs_data.events)
        /\ Len(population_data) = Len(usgs_data.events)

\* the lookup result and the magnitude of the call of estimate_affected_people
\* that the loop made last
LastDensity == densities[Len(densities)]
LastMagnitude == usgs_data.events[Len(densities)].magnitude
Returned == pc \in {"store", "sleep"}

\* C8: for a magnitude m >= 0 and a known density d >= 0 the estimator returns
\* floor(d * pi * (10 m)^2); and what it returns is "Unknown" exactly when the
\* lookup gave None.
C8_EstimateFormula ==
    Len(densities) = 1 =>
        /\ (IsNum(LastMagnitude) /\ LastMagnitude.v >= 0
              /\ IsNum(LastDensity) /\ LastDensity.v >= 0)
            => /\ Returned
               /\ affected_people
                    = Num((LastDensity.v * PiNum * (10 * LastMagnitude.v)
                             * (10 * LastMagnitude.v)) \div PiDen)
        /\ Returned => (IsUnknown(affected_people) <=> LastDensity = None)

\* magnitude 5 at density 2: floor(2 * pi * 50^2) = 15707
C8_Witness ==
    /\ pc = "store"
    /\ LastMagnitude = Num(5)
    /\ LastDensity = Num(2)
    /\ affected_people = Num(15707)

\* C9: every value stored in population_data is "Unknown" or an integer >= 0.
C9_EstimatesNeverNegative ==
    \A x \in Stored(population_data) : IsUnknown(x) \/ (IsNum(x) /\ x.v >= 0)

\* C10: a negative, NaN or null magnitude with a known density gives the
\* estimate "Unknown": not a number, not an exception.
C10_BadMagnitudeIsUnknown ==
    (/\ Len(densities) = 1
     /\ IsNum(LastDensity)
     /\ (LastMagnitude = None \/ LastMagnitude = NaN
           \/ (IsNum(LastMagnitude) /\ LastMagnitude.v < 0)))
        => (Returned /\ IsUnknown(affected_people))

\* the tuples lines 39-42 build from the features that have every key, in feed order
IsWellFormed(f) == f.wellformed
WellFormedEvents(fs) ==
    LET w == SelectSeq(fs, IsWellFormed)
    IN [i \in 1..Len(w) |-> Event(w[i].lat, w[i].lon, w[i].magnitude)]

\* C11: a fetch whose response (status 200) holds well-formed features and
\* malformed ones returns exactly the events of the well-formed ones, in feed
\* order; the malformed ones do not fail the fetch.
C11_MalformedRecordsSkipped ==
    (usgs_response.kind = "http" /\ usgs_response.status = 200)
        => usgs_data = DataList(WellFormedEvents(usgs_response.features))

\* C12: as long as no refresh cycle has run to its end, a request reads the
\* empty dataset: heatmap_data and population_data are empty and no alert is
\* produced.
C12_EmptyBeforeFirstRefresh ==
    ~refreshed =>
        /\ Rendering => (heatmap_data = <<>> /\ population_data = <<>>)
        /\ r_alert = NoAlert

\* C13: a completed cycle followed by a cycle on the same fetched list, with
\* the same lookup results, leaves heatmap_data and population_data as the
\* first cycle left them.
C13_RepeatedCycleSameData ==
    (CycleCompleted /\ prev.set /\ densities = prev.densities)
        => /\ heatmap_data = prev.heatmap_data
           /\ population_data = prev.population_data

\* two cycles on the same two events, one estimate a number
C13_Witness ==
    /\ CycleCompleted
    /\ prev.set
    /\ densities = prev.densities
    /\ Len(heatmap_data) = 2
    /\ \E x \in Stored(population_data) : IsNum(x)

\* e is an element of the list h
InList(e, h) == \E i \in 1..Len(h) : h[i] = e

\* C14: a request whose event list is empty produces no alert, and a request
\* whose event list is not empty produces an alert naming an event of the list
\* whose magnitude no other event of the list exceeds.
C14_MostSevereAlert ==
    [][/\ (rpc = "test" /\ rpc' = "done")
            => (Len(heatmap_data) = 0 /\ r_alert' = NoAlert)
       /\ (rpc = "test" /\ Len(heatmap_data) > 0) => rpc' \in {"test", "max"}
       /\ (rpc = "max" /\ rpc' # "max")
            => /\ rpc' = "done"
               /\ InList(r_alert', heatmap_data)
               /\ \A i \in 1..Len(heatmap_data) :
                     /\ IsNum(heatmap_data[i].magnitude)
                     /\ heatmap_data[i].magnitude.v <= r_alert'.magnitude.v]_vars

\* C15: after a completed cycle an event whose density lookup failed is not in
\* heatmap_data, the data given to the heat layer, while population_data still
\* holds "Unknown" at its coordinates.
C15_UnknownLeftOutOfHeatLayer ==
    CycleCompleted =>
        \A j \in 1..Len(usgs_data.events) :
            densities[j] = None =>
                /\ ~InList(usgs_data.events[j], heatmap_data)
                /\ Key(usgs_data.events[j]) \in DictKeys(population_data)
                /\ LastWithKey(usgs_data.events, idx, j) =>
                      DictLookup(population_data, Key(usgs_data.events[j])) = Unknown

\* the (lat, lon) pairs of the events es
EventKeys(es) == {Key(es[i]) : i \in 1..Len(es)}

\* C16: after a completed cycle population_data has exactly one entry for each
\* distinct (lat, lon) of the fetched events; where several events share their
\* coordinates the entry is the estimate of the last of them in feed order; and
\* heatmap_data still holds every event.
C16_LastEstimatePerCoordinate ==
    CycleCompleted =>
        /\ DictKeys(population_data) = EventKeys(usgs_data.events)
        /\ Len(population_data) = Cardinality(EventKeys(usgs_data.events))
        /\ \A j \in 1..Len(usgs_data.events) :
              LastWithKey(usgs_data.events, Len(usgs_data.events), j) =>
                  DictLookup(population_data, Key(usgs_data.events[j]))
                      = estimate_affected_people(densities[j],
                                                 usgs_data.events[j].magnitude)
        /\ Len(heatmap_data) = Len(usgs_data.events)
        /\ \A j \in 1..Len(usgs_data.events) : InList(usgs_data.events[j], heatmap_data)

\* a completed cycle of two events at the same coordinates whose estimates
\* differ: the entry is the second event's
C16_Witness ==
    /\ CycleCompleted
    /\ Len(usgs_data.events) = 2
    /\ Key(usgs_data.events[1]) = Key(usgs_data.events[2])
    /\ estimate_affected_people(densities[1], usgs_data.events[1].magnitude)
         # estimate_affected_people(densities[2], usgs_data.events[2].magnitude)
    /\ Len(population_data) = 1
    /\ population_data[1].val
         = estimate_affected_people(densities[2], usgs_data.events[2].magnitude)
    /\ Len(heatmap_data) = 2

\* C17: in the wait after a cycle whose fetch gave a non-empty sequence of
\* events and whose estimation ran to its end, heatmap_data is that sequence
\* (same events, same order, nothing older) and the keys of population_data are
\* the (lat, lon) pairs of its events.
C17_DataIsTheFetchedSequence ==
    (Waiting /\ Truthy(usgs_data) /\ idx = Len(usgs_data.events)) =>
        /\ heatmap_data = usgs_data.events
        /\ \A k \in Lats \X Lons :
              k \in DictKeys(population_data)
                  <=> \E i \in 1..Len(usgs_data.events) : Key(usgs_data.events[i]) = k

\* the wait after a completed cycle of two different events at two places
C17_Witness ==
    /\ Waiting
    /\ Truthy(usgs_data)
    /\ Len(usgs_data.events) = 2
    /\ idx = 2
    /\ Key(usgs_data.events[1]) # Key(usgs_data.events[2])
    /\ heatmap_data = usgs_data.events
    /\ Len(population_data) = 2

\* C18: a request only reads: no step of home/create_heatmap changes
\* heatmap_data or population_data, at whatever point of the refresh cycle it
\* runs and however often; every change of them is a step of the refresh thread.
C18_RenderIsReadOnly ==
    [][/\ renderVars' # renderVars
            => (heatmap_data' = heatmap_data /\ population_data' = population_data)
       /\ (heatmap_data' # heatmap_data \/ population_data' # population_data)
            => (pc \in {"clear_heatmap", "clear_population", "append", "store"}
                  /\ pc' # pc /\ renderVars' = renderVars)]_vars

\* a request went through all of create_heatmap, alert included, while the
\* refresh thread was in the middle of a later cycle
C18_Witness ==
    /\ rpc = "done"
    /\ r_alert # NoAlert
    /\ refreshed
    /\ pc = "store"
    /\ Len(heatmap_data) > 0

\* C19: when lines 117-126 run on a list whose magnitudes are all known, an
\* alert is made and the event it names is the first of the list, in feed order, among those of
\* the largest magnitude: a later event of the same magnitude never wins.
C19_FirstOfEqualMaxima ==
    [][(rpc = "max" /\ rpc' # "max" /\ Len(heatmap_data) > 0
          /\ \A i \in 1..Len(heatmap_data) : IsNum(heatmap_data[i].magnitude))
        => /\ rpc' = "done"
           /\ \A i \in 1..Len(heatmap_data) :
                 ((\A j \in 1..Len(heatmap_data) :
                      heatmap_data[j].magnitude.v <= heatmap_data[i].magnitude.v)
                  /\ ~\E j \in 1..(i - 1) :
                      heatmap_data[j].magnitude.v = heatmap_data[i].magnitude.v)
                 => r_alert' = heatmap_data[i]]_vars

\* an alert computed from two events of the same, largest magnitude at two
\* places names the first
C19_Witness ==
    /\ rpc = "done"
    /\ Len(heatmap_data) = 2
    /\ heatmap_data[1].magnitude = heatmap_data[2].magnitude
    /\ IsNum(heatmap_data[1].magnitude)
    /\ Key(heatmap_data[1]) # Key(heatmap_data[2])
    /\ r_alert = heatmap_data[1]

====
